---- MODULE Spec2Model ----
(***************************************************************************)
(* Model of HealthcareRiskScorer (src/src/healthcare-risk-scoring.js):     *)
(* the paginated fetch with retry/backoff, the field risk evaluators, the  *)
(* data-quality validator, the aggregator, the submitter and the           *)
(* orchestrator.                                                           *)
(*                                                                         *)
(* JavaScript values are records [kind, chars, tenths]:                    *)
(*   kind = "undefined" | "null" | "number" | "string"                     *)
(*   chars  : the characters of a string (sequence of 1-character strings) *)
(*   tenths : a number, scaled to tenths (99.6 is 996)                     *)
(* The result of parseInt / parseFloat is [nan, v]; v is an integer for    *)
(* parseInt and a number of tenths for parseFloat.                         *)
(***************************************************************************)
EXTENDS Integers, Sequences, FiniteSets, TLC

\* ------------------------------------------------------------------ bounds
\* systolic values of the well-formed readings that are enumerated
SLo == 117
SHi == 142
\* diastolic values of the well-formed readings that are enumerated
DLo == 77
DHi == 92
\* pages the upstream serves at most, records of a full page
MaxPages == 3
MaxPageLen == 2

\* ------------------------------------------------------- program constants
MaxRetries == 3
RetryDelay == 1000
ThrottleDelay == 200

\* ------------------------------------------------------------- JS values
Undefined == [kind |-> "undefined", chars |-> <<>>, tenths |-> 0]
Null == [kind |-> "null", chars |-> <<>>, tenths |-> 0]
Num(t) == [kind |-> "number", chars |-> <<>>, tenths |-> t]
Str(s) == [kind |-> "string", chars |-> s, tenths |-> 0]

NaN == [nan |-> TRUE, v |-> 0]
Val(n) == [nan |-> FALSE, v |-> n]

DigitChars == {"0", "1", "2", "3", "4", "5", "6", "7", "8", "9"}

DigitVal(c) ==
    CASE c = "0" -> 0 [] c = "1" -> 1 [] c = "2" -> 2 [] c = "3" -> 3
      [] c = "4" -> 4 [] c = "5" -> 5 [] c = "6" -> 6 [] c = "7" -> 7
      [] c = "8" -> 8 [] c = "9" -> 9

DigitChar(d) ==
    CASE d = 0 -> "0" [] d = 1 -> "1" [] d = 2 -> "2" [] d = 3 -> "3"
      [] d = 4 -> "4" [] d = 5 -> "5" [] d = 6 -> "6" [] d = 7 -> "7"
      [] d = 8 -> "8" [] d = 9 -> "9"

Abs(n) == IF n < 0 THEN 0 - n ELSE n

\* decimal digits of a natural number, most significant first
RECURSIVE NatToChars(_)
NatToChars(n) ==
    IF n < 10 THEN <<DigitChar(n)>>
    ELSE NatToChars(n \div 10) \o <<DigitChar(n % 10)>>

\* String(x) of a number given in tenths: "-0.5", "99", "99.6"
NumberToString(t) ==
    (IF t < 0 THEN <<"-">> ELSE <<>>)
      \o NatToChars(Abs(t) \div 10)
      \o (IF Abs(t) % 10 = 0 THEN <<>> ELSE <<".", DigitChar(Abs(t) % 10)>>)

\* the string conversion parseInt and parseFloat apply to their argument
ToStringJS(x) ==
    CASE x.kind = "string" -> x.chars
      [] x.kind = "number" -> NumberToString(x.tenths)
      [] x.kind = "null" -> <<"n", "u", "l", "l">>
      [] x.kind = "undefined" -> <<"u", "n", "d", "e", "f", "i", "n", "e", "d">>

\* String.prototype.split('/')
RECURSIVE SplitFrom(_, _, _)
SplitFrom(s, i, cur) ==
    IF i > Len(s) THEN <<cur>>
    ELSE IF s[i] = "/" THEN <<cur>> \o SplitFrom(s, i + 1, <<>>)
    ELSE SplitFrom(s, i + 1, Append(cur, s[i]))

Split(s) == SplitFrom(s, 1, <<>>)

\* index of the first character of s at or after i that is not white space
RECURSIVE SkipSpace(_, _)
SkipSpace(s, i) ==
    IF i <= Len(s) /\ s[i] = " " THEN SkipSpace(s, i + 1) ELSE i

\* index after the run of digits of s that starts at i
RECURSIVE DigitsEnd(_, _)
DigitsEnd(s, i) ==
    IF i <= Len(s) /\ s[i] \in DigitChars THEN DigitsEnd(s, i + 1) ELSE i

\* value of the digits s[i..j-1] (0 for the empty run)
RECURSIVE DigitsValue(_, _, _)
DigitsValue(s, i, j) ==
    IF i >= j THEN 0
    ELSE DigitsValue(s, i, j - 1) * 10 + DigitVal(s[j - 1])

\* parseInt(string) in radix 10: white space, sign, the longest run of digits
ParseIntChars(s) ==
    LET i == SkipSpace(s, 1)
        neg == i <= Len(s) /\ s[i] = "-"
        j == IF i <= Len(s) /\ s[i] \in {"-", "+"} THEN i + 1 ELSE i
        k == DigitsEnd(s, j)
    IN  IF k = j THEN NaN
        ELSE Val(IF neg THEN 0 - DigitsValue(s, j, k) ELSE DigitsValue(s, j, k))

parseInt(x) == ParseIntChars(ToStringJS(x))

\* parseFloat(string), in tenths: white space, sign, digits, "." and digits
ParseFloatChars(s) ==
    LET i == SkipSpace(s, 1)
        neg == i <= Len(s) /\ s[i] = "-"
        j == IF i <= Len(s) /\ s[i] \in {"-", "+"} THEN i + 1 ELSE i
        k == DigitsEnd(s, j)
        dot == k <= Len(s) /\ s[k] = "."
        m == IF dot THEN DigitsEnd(s, k + 1) ELSE k
        frac == IF dot /\ m > k + 1 THEN DigitVal(s[k + 1]) ELSE 0
        mag == DigitsValue(s, j, k) * 10 + frac
    IN  IF k = j /\ ~(dot /\ m > k + 1) THEN NaN
        ELSE Val(IF neg THEN 0 - mag ELSE mag)

parseFloat(x) == ParseFloatChars(ToStringJS(x))

isNaN(r) == r.nan

\* !x for the values a field can hold
Falsy(x) ==
    \/ x.kind \in {"undefined", "null"}
    \/ x.kind = "string" /\ x.chars = <<>>
    \/ x.kind = "number" /\ x.tenths = 0

\* Ge(r, k): the JavaScript comparison r >= k, false for NaN
Ge(r, k) == ~r.nan /\ r.v >= k
Lt(r, k) == ~r.nan /\ r.v < k
Gt(r, k) == ~r.nan /\ r.v > k

\* ------------------------------------------------- field risk evaluators
calculateBPRisk_NoDiastolicStage1(bloodPressure) ==
    IF Falsy(bloodPressure) \/ bloodPressure.kind # "string" THEN 0
    ELSE LET parts == Split(bloodPressure.chars) IN
      IF Len(parts) # 2 THEN 0
      ELSE LET systolic == ParseIntChars(parts[1])
               diastolic == ParseIntChars(parts[2]) IN
        IF isNaN(systolic) \/ isNaN(diastolic) THEN 0
        ELSE IF Ge(systolic, 140) \/ Ge(diastolic, 90) THEN 4
        ELSE IF Ge(systolic, 130) THEN 3
        ELSE IF Ge(systolic, 120) /\ Lt(diastolic, 80) THEN 2
        ELSE IF Lt(systolic, 120) /\ Lt(diastolic, 80) THEN 1
        ELSE 0

calculateBPRisk_ElevatedFirst(bloodPressure) ==
    IF Falsy(bloodPressure) \/ bloodPressure.kind # "string" THEN 0
    ELSE LET parts == Split(bloodPressure.chars) IN
      IF Len(parts) # 2 THEN 0
      ELSE LET systolic == ParseIntChars(parts[1])
               diastolic == ParseIntChars(parts[2]) IN
        IF isNaN(systolic) \/ isNaN(diastolic) THEN 0
        ELSE IF Ge(systolic, 140) \/ Ge(diastolic, 90) THEN 4
        ELSE IF Ge(systolic, 120) /\ Lt(diastolic, 80) THEN 2
        ELSE IF Ge(systolic, 130) \/ Ge(diastolic, 80) THEN 3
        ELSE IF Lt(systolic, 120) /\ Lt(diastolic, 80) THEN 1
        ELSE 0

calculateBPRisk(bloodPressure) ==
    IF Falsy(bloodPressure) \/ bloodPressure.kind # "string" THEN 0
    ELSE LET parts == Split(bloodPressure.chars) IN
      IF Len(parts) # 2 THEN 0
      ELSE LET systolic == ParseIntChars(parts[1])
               diastolic == ParseIntChars(parts[2]) IN
        IF isNaN(systolic) \/ isNaN(diastolic) THEN 0
        ELSE IF Ge(systolic, 140) \/ Ge(diastolic, 90) THEN 4
        ELSE IF Ge(systolic, 130) \/ Ge(diastolic, 80) THEN 3
        ELSE IF Ge(systolic, 120) /\ Lt(diastolic, 80) THEN 2
        ELSE IF Lt(systolic, 120) /\ Lt(diastolic, 80) THEN 1
        ELSE 0

calculateTemperatureRisk_StrictLowFever(temperature) ==
    IF temperature.kind \in {"null", "undefined"} THEN 0
    ELSE LET temp == parseFloat(temperature) IN
      IF isNaN(temp) THEN 0
      ELSE IF Ge(temp, 1010) THEN 2
      ELSE IF Gt(temp, 996) THEN 1
      ELSE 0

calculateTemperatureRisk(temperature) ==
    IF temperature.kind \in {"null", "undefined"} THEN 0
    ELSE LET temp == parseFloat(temperature) IN
      IF isNaN(temp) THEN 0
      ELSE IF Ge(temp, 1010) THEN 2
      ELSE IF Ge(temp, 996) THEN 1
      ELSE 0

calculateAgeRisk_Under40Zero(age) ==
    IF age.kind \in {"null", "undefined"} THEN 0
    ELSE LET ageNum == parseInt(age) IN
      IF isNaN(ageNum) THEN 0
      ELSE IF Gt(ageNum, 65) THEN 2
      ELSE IF Ge(ageNum, 40) THEN 1
      ELSE 0

calculateAgeRisk(age) ==
    IF age.kind \in {"null", "undefined"} THEN 0
    ELSE LET ageNum == parseInt(age) IN
      IF isNaN(ageNum) THEN 0
      ELSE IF Gt(ageNum, 65) THEN 2
      ELSE IF Ge(ageNum, 40) THEN 1
      ELSE 1

\* ------------------------------------------------ data quality validator
hasDataQualityIssues_NoAgeCheck(patient) ==
    IF Falsy(patient.blood_pressure) \/ patient.blood_pressure.kind # "string"
    THEN TRUE
    ELSE LET bpParts == Split(patient.blood_pressure.chars) IN
      IF Len(bpParts) # 2 THEN TRUE
      ELSE IF isNaN(ParseIntChars(bpParts[1])) \/ isNaN(ParseIntChars(bpParts[2]))
      THEN TRUE
      ELSE IF patient.temperature.kind \in {"null", "undefined"} THEN TRUE
      ELSE IF isNaN(parseFloat(patient.temperature)) THEN TRUE
      ELSE FALSE

hasDataQualityIssues(patient) ==
    IF Falsy(patient.blood_pressure) \/ patient.blood_pressure.kind # "string"
    THEN TRUE
    ELSE LET bpParts == Split(patient.blood_pressure.chars) IN
      IF Len(bpParts) # 2 THEN TRUE
      ELSE IF isNaN(ParseIntChars(bpParts[1])) \/ isNaN(ParseIntChars(bpParts[2]))
      THEN TRUE
      ELSE IF patient.temperature.kind \in {"null", "undefined"} THEN TRUE
      ELSE IF isNaN(parseFloat(patient.temperature)) THEN TRUE
      ELSE IF patient.age.kind \in {"null", "undefined"} THEN TRUE
      ELSE IF isNaN(parseInt(patient.age)) THEN TRUE
      ELSE FALSE

\* ------------------------------------------------------- risk aggregator
EmptyResults ==
    [highRiskPatients |-> <<>>, feverPatients |-> <<>>, dataQualityIssues |-> <<>>]

ScorePatient_FeverOnlyIfNotHighRisk(results, patient) ==
    LET bpRisk == calculateBPRisk(patient.blood_pressure)
        tempRisk == calculateTemperatureRisk(patient.temperature)
        ageRisk == calculateAgeRisk(patient.age)
        totalRisk == bpRisk + tempRisk + ageRisk
        temp == parseFloat(patient.temperature)
    IN  [highRiskPatients |->
            IF totalRisk >= 4
            THEN Append(results.highRiskPatients, patient.patient_id)
            ELSE results.highRiskPatients,
         feverPatients |->
            IF totalRisk < 4 /\ Ge(temp, 996)
            THEN Append(results.feverPatients, patient.patient_id)
            ELSE results.feverPatients,
         dataQualityIssues |-> results.dataQualityIssues]

\* the scoring part of the forEach callback (lines 149-164)
ScorePatient(results, patient) ==
    LET bpRisk == calculateBPRisk(patient.blood_pressure)
        tempRisk == calculateTemperatureRisk(patient.temperature)
        ageRisk == calculateAgeRisk(patient.age)
        totalRisk == bpRisk + tempRisk + ageRisk
        temp == parseFloat(patient.temperature)
    IN  [highRiskPatients |->
            IF totalRisk >= 4
            THEN Append(results.highRiskPatients, patient.patient_id)
            ELSE results.highRiskPatients,
         feverPatients |->
            IF Ge(temp, 996)
            THEN Append(results.feverPatients, patient.patient_id)
            ELSE results.feverPatients,
         dataQualityIssues |-> results.dataQualityIssues]

\* the forEach callback of processPatients (lines 142-165)
ProcessPatient_NoSkip(results, patient) ==
    IF hasDataQualityIssues(patient)
    THEN ScorePatient([results EXCEPT !.dataQualityIssues =
                          Append(@, patient.patient_id)], patient)
    ELSE ScorePatient(results, patient)

InSeq(x, q) == \E i \in DOMAIN q : q[i] = x

ProcessPatient_Dedup(results, patient) ==
    IF hasDataQualityIssues(patient)
    THEN IF InSeq(patient.patient_id, results.dataQualityIssues) THEN results
         ELSE [results EXCEPT !.dataQualityIssues = Append(@, patient.patient_id)]
    ELSE ScorePatient(results, patient)

ProcessPatient(results, patient) ==
    IF hasDataQualityIssues(patient)
    THEN [results EXCEPT !.dataQualityIssues = Append(@, patient.patient_id)]
    ELSE ScorePatient(results, patient)

RECURSIVE ForEachPatient(_, _, _)
ForEachPatient(results, patients, i) ==
    IF i > Len(patients) THEN results
    ELSE ForEachPatient(ProcessPatient(results, patients[i]), patients, i + 1)

processPatients(patients) == ForEachPatient(EmptyResults, patients, 1)

\* ------------------------------------------------------ resilient fetcher
\* an error of apiClient.get: error.response and error.response.status
HttpError(st) == [response |-> TRUE, status |-> st]
NoResponse == [response |-> FALSE, status |-> 0]
NoError == [response |-> FALSE, status |-> -1]

\* the test of line 27
Retryable_AnyStatus(error) == error.response

Retryable(error) == error.response /\ error.status \in {429, 500, 503}

\* the test of line 28
LastAttempt_Never(att) == FALSE

LastAttempt(att) == att = MaxRetries

\* line 30: the delay waited after the failed attempt att
BackoffDelay_Constant(att) == RetryDelay

BackoffDelay(att) == RetryDelay * att

\* line 22: attempt++
NextAttempt_Stuck(att) == att

NextAttempt(att) == att + 1

\* response.data of a page request:
\*   kind "empty"  : no body (data is falsy)
\*   kind "nodata" : a body without a data payload
\*   kind "data"   : a body with the data array `data`
\*   hasNext       : "true" | "false" | "missing" (no hasNext in pagination)
\*                   | "nopagination" (no pagination object)
Body(k, d, h) == [kind |-> k, data |-> d, hasNext |-> h]

\* the test of line 49: data && data.data
HasPayload_OrBody(body) == body.kind \in {"data", "nodata"}

HasPayload(body) == body.kind = "data"

\* line 51: data.pagination?.hasNext || false
NextHasNext(body) == body.hasNext = "true"

\* line 50: allPatients.push(...data.data)
PushAll_Prepend(acc, data) == data \o acc

PushAll(acc, data) == acc \o data

\* line 52: page++
NextPage_Skip(p) == p + 2

NextPage(p) == p + 1

\* the catch blocks of fetchAllPatients (59-62) and runAssessment (205-208)
\* rethrow: the run ends in failure
CatchFetchError_Swallow(error) == "fetched"

CatchFetchError(error) == "failed"

\* ------------------------------------------------------- result submitter
submissionData_Swapped(res) ==
    [high_risk_patients |-> res.feverPatients,
     fever_patients |-> res.highRiskPatients,
     data_quality_issues |-> res.dataQualityIssues]

submissionData(res) ==
    [high_risk_patients |-> res.highRiskPatients,
     fever_patients |-> res.feverPatients,
     data_quality_issues |-> res.dataQualityIssues]

\* ------------------------------------------------------------- the inputs
\* an integer as the characters of its decimal numeral
IntToChars(n) == (IF n < 0 THEN <<"-">> ELSE <<>>) \o NatToChars(Abs(n))

\* the reading "S/D"
Reading(S, D) == Str(IntToChars(S) \o <<"/">> \o IntToChars(D))

SVals == (SLo .. SHi) \cup {0 - 5, 0, 7}
DVals == (DLo .. DHi) \cup {0 - 5, 0, 7}

WellFormedBP == {Reading(S, D) : S \in SVals, D \in DVals}

MalformedBP ==
    {Undefined, Null, Num(1200), Str(<<>>), Str(<<"a", "b", "c">>),
     Str(<<"1", "2", "0">>), Str(<<"/">>), Str(<<"/", "8", "0">>),
     Str(<<"1", "2", "0", "/">>), Str(<<"a", "/", "8", "0">>),
     Str(<<"1", "2", "0", "/", "a">>), Str(<<"-", "/", "8", "0">>),
     Str(<<"1", "2", "0", "/", "8", "0", "/", "1">>),
     Str(<<"1", "5", "0", "/", "/", "9", "5">>)}

\* not "S/D" with integers, yet both parts have an integer prefix
LenientBP ==
    {Str(<<" ", "1", "3", "5", "/", "7", "0">>),
     Str(<<"1", "3", "5", "a", "/", "7", "0", "a">>),
     Str(<<"1", "1", "9", ".", "9", "/", "+", "8", "5">>),
     Str(<<"1", "5", "0", "/", " ", "-", "9", "5", " ">>)}

BPFull == WellFormedBP \cup MalformedBP \cup LenientBP

BPRep ==
    {Reading(130, 85), Reading(150, 95), Reading(119, 85), Reading(135, 70),
     Reading(110, 70), Reading(125, 75), Undefined, Str(<<"a", "b", "c">>)}

TempTenths == {0 - 10, 0, 5, 985, 990, 995, 996, 1000, 1009, 1010, 1020}

TempFull ==
    {Num(t) : t \in TempTenths} \cup {Str(NumberToString(t)) : t \in TempTenths}
      \cup {Undefined, Null, Str(<<>>), Str(<<"a", "b", "c">>), Str(<<".">>),
            Str(<<".", "5">>), Str(<<"1", "0", "1", ".">>),
            Str(<<" ", "9", "9", ".", "6", "F">>),
            Str(<<"9", "9", ".", "5", "9">>), Str(<<"F", "9", "9">>)}

TempRep == {Num(990), Num(996), Str(<<"1", "0", "2">>), Str(<<"a", "b", "c">>), Undefined}

AgeYears == {0 - 5, 0, 10, 39, 40, 64, 65, 66, 70}

AgeFull ==
    {Num(10 * a) : a \in AgeYears} \cup {Str(IntToChars(a)) : a \in AgeYears}
      \cup {Undefined, Null, Num(655), Str(<<>>), Str(<<"a", "b", "c">>),
            Str(<<"6", "6", " ", "y">>), Str(<<"y", "6", "6">>)}

AgeRep == {Num(700), Num(300), Str(<<"6", "6">>), Str(<<"a", "b", "c">>), Undefined}

Patient(id, bp, temp, age) ==
    [patient_id |-> id, blood_pressure |-> bp, temperature |-> temp, age |-> age]

\* the records the evaluators, the validator and the aggregator are applied to
RecordPool ==
    {Patient("P", bp, t, a) : bp \in BPFull, t \in TempRep, a \in AgeRep}
      \cup {Patient("P", bp, t, a) : bp \in BPRep, t \in TempFull, a \in AgeFull}

\* the records the upstream serves
PatientA == Patient("A", Reading(130, 85), Num(990), Num(700))
PatientB == Patient("B", Reading(150, 95), Num(1020), Undefined)
PatientC == Patient("C", Reading(110, 70), Str(<<"9", "9", ".", "6">>), Num(300))

\* the upstream's collection: it serves these records in this order, again
\* from the first one after the last (so identifiers repeat across pages)
Dataset == <<PatientA, PatientB, PatientC>>

\* the n records that follow the first `served` ones
Window(served, n) == [i \in 1 .. n |-> Dataset[((served + i - 1) % Len(Dataset)) + 1]]

RECURSIVE ServedBy(_, _)
ServedBy(resps, i) ==
    IF i > Len(resps) THEN 0 ELSE Len(resps[i].body.data) + ServedBy(resps, i + 1)

\* the data arrays a page can carry after the responses resps: a full page
\* (MaxPageLen records), a short page of one record or an empty page, of the
\* records that come next
PageDatas(resps) == {Window(ServedBy(resps, 1), n) : n \in {0, 1, MaxPageLen}}

\* the bodies the upstream can answer the request for page p with; it has at
\* most MaxPages pages, so it announces a next page only before the last one
Flags(p) == {"false", "missing", "nopagination"} \cup (IF p < MaxPages THEN {"true"} ELSE {})

Bodies(p, resps) ==
    {Body("empty", <<>>, "nopagination")}
      \cup {Body("nodata", <<>>, h) : h \in Flags(p) \ {"missing"}}
      \cup {Body("data", d, h) : d \in PageDatas(resps), h \in Flags(p)}

Errors == {HttpError(st) : st \in {429, 500, 503, 401, 404}} \cup {NoResponse}

PostErrors == {HttpError(500), NoResponse}

\* ---------------------------------------------------------------- state
VARIABLES
    pc,           \* where the run is suspended
    page,         \* fetchAllPatients: page
    attempt,      \* makeRequestWithRetry: attempt
    hasNext,      \* fetchAllPatients: hasNext
    allPatients,  \* fetchAllPatients: allPatients
    results,      \* runAssessment: results
    outcome,      \* "running" | "returned" | "threw"
    error,        \* the error caught (the catch variable), NoError outside a catch
    events,       \* history: the requests issued and the delays started
    responses,    \* history: the successful page responses
    posted,       \* history: the payloads posted to /submit-assessment
    patient,      \* the record an evaluator is applied to
    evaluated     \* the function applied to it and what it returned

vars == <<pc, page, attempt, hasNext, allPatients, results, outcome, error,
          events, responses, posted, patient, evaluated>>

runVars == <<pc, page, attempt, hasNext, allPatients, results, outcome, error,
             events, responses, posted>>

Event(t, p, a, ms) == [type |-> t, page |-> p, attempt |-> a, ms |-> ms]

\* line 55: the delay started after page p was fetched on attempt a
ThrottleEvent_PerAttempt(p, a) == Event("throttle", p, a, ThrottleDelay * a)

ThrottleEvent(p, a) == Event("throttle", p, a, ThrottleDelay)

NotEvaluated == [fn |-> "none", risk |-> 0, issues |-> FALSE, results |-> EmptyResults]

InitRun ==
    /\ pc = "idle"
    /\ page = 1
    /\ attempt = 1
    /\ hasNext = TRUE
    /\ allPatients = <<>>
    /\ results = EmptyResults
    /\ outcome = "running"
    /\ error = NoError
    /\ events = <<>>
    /\ responses = <<>>
    /\ posted = <<>>

Init ==
    /\ InitRun
    /\ patient = PatientA
    /\ evaluated = NotEvaluated

\* ------------------------------------------------ the run (orchestrator)
\* runAssessment up to its first suspension: fetchAllPatients starts and
\* makeRequestWithRetry issues the first GET of page 1
RunAssessment ==
    /\ pc = "idle"
    /\ pc' = "awaitGet"
    /\ page' = 1
    /\ attempt' = 1
    /\ hasNext' = TRUE
    /\ allPatients' = <<>>
    /\ events' = Append(events, Event("get", 1, 1, 0))
    /\ UNCHANGED <<results, outcome, error, responses, posted, patient, evaluated>>

\* apiClient.get resolves: makeRequestWithRetry returns response.data and
\* fetchAllPatients runs lines 49-58
GetSucceeded(body) ==
    /\ pc = "awaitGet"
    /\ responses' = Append(responses, [page |-> page, body |-> body])
    /\ IF HasPayload(body)
       THEN /\ allPatients' = PushAll(allPatients, body.data)
            /\ hasNext' = NextHasNext(body)
            /\ page' = NextPage(page)
            /\ events' = Append(events, ThrottleEvent(page, attempt))
            /\ pc' = "throttle"
       ELSE /\ pc' = "fetched"
            /\ UNCHANGED <<allPatients, hasNext, page, events>>
    /\ UNCHANGED <<attempt, results, outcome, error, posted, patient, evaluated>>

\* the 200 ms timer of line 55 fires: the while test of line 44, then either
\* the first GET of the next page or the return of line 66
ThrottleElapsed ==
    /\ pc = "throttle"
    /\ IF hasNext
       THEN /\ pc' = "awaitGet"
            /\ attempt' = 1
            /\ events' = Append(events, Event("get", page, 1, 0))
       ELSE /\ pc' = "fetched"
            /\ UNCHANGED <<attempt, events>>
    /\ UNCHANGED <<page, hasNext, allPatients, results, outcome, error,
                   responses, posted, patient, evaluated>>

\* apiClient.get rejects: the catch block of lines 26-34, and on a throw the
\* catch blocks of fetchAllPatients and runAssessment
GetFailed(err) ==
    /\ pc = "awaitGet"
    /\ IF Retryable(err) /\ ~LastAttempt(attempt)
       THEN /\ pc' = "backoff"
            /\ events' = Append(events, Event("backoff", page, attempt, BackoffDelay(attempt)))
            /\ UNCHANGED outcome
       ELSE /\ pc' = CatchFetchError(err)
            /\ outcome' = IF CatchFetchError(err) = "failed" THEN "threw" ELSE outcome
            /\ UNCHANGED events
    /\ error' = err
    /\ UNCHANGED <<page, attempt, hasNext, allPatients, results, responses,
                   posted, patient, evaluated>>

\* the backoff timer of line 30 fires: the catch block ends (its error goes
\* out of scope), attempt++ and the for test of line 22,
\* then the next GET of the same page (or the fall off the end of the loop)
BackoffElapsed ==
    /\ pc = "backoff"
    /\ attempt' = NextAttempt(attempt)
    /\ error' = NoError
    /\ IF NextAttempt(attempt) <= MaxRetries
       THEN /\ pc' = "awaitGet"
            /\ events' = Append(events, Event("get", page, NextAttempt(attempt), 0))
       ELSE /\ pc' = "fetched"
            /\ UNCHANGED events
    /\ UNCHANGED <<page, hasNext, allPatients, results, outcome,
                   responses, posted, patient, evaluated>>

\* fetchAllPatients has returned: lines 199-200, processPatients and then
\* submitResults up to its POST
AggregateAndSubmit ==
    /\ pc = "fetched"
    /\ results' = processPatients(allPatients)
    /\ posted' = Append(posted, submissionData(processPatients(allPatients)))
    /\ events' = Append(events, Event("post", 0, 0, 0))
    /\ pc' = "awaitPost"
    /\ UNCHANGED <<page, attempt, hasNext, allPatients, outcome, error,
                   responses, patient, evaluated>>

\* apiClient.post resolves: runAssessment returns the acknowledgement
PostSucceeded ==
    /\ pc = "awaitPost"
    /\ pc' = "done"
    /\ outcome' = "returned"
    /\ UNCHANGED <<page, attempt, hasNext, allPatients, results, error, events,
                   responses, posted, patient, evaluated>>

\* apiClient.post rejects: the catch blocks of submitResults and runAssessment
PostFailed(err) ==
    /\ pc = "awaitPost"
    /\ pc' = "failed"
    /\ outcome' = "threw"
    /\ error' = err
    /\ UNCHANGED <<page, attempt, hasNext, allPatients, results, events,
                   responses, posted, patient, evaluated>>

Next ==
    \/ RunAssessment
    \/ \E body \in Bodies(page, responses) : GetSucceeded(body)
    \/ ThrottleElapsed
    \/ \E err \in Errors : GetFailed(err)
    \/ BackoffElapsed
    \/ AggregateAndSubmit
    \/ PostSucceeded
    \/ \E err \in PostErrors : PostFailed(err)

Spec == Init /\ [][Next]_vars

\* every HTTP request completes (apiClient.get resolves or rejects, at the
\* latest by its timeout of line 16) and every timer fires
GetCompletes ==
    \/ \E body \in Bodies(page, responses) : GetSucceeded(body)
    \/ \E err \in Errors : GetFailed(err)

SpecLive ==
    /\ Init
    /\ [][Next]_vars
    /\ WF_vars(GetCompletes)
    /\ WF_vars(ThrottleElapsed)
    /\ WF_vars(BackoffElapsed)

\* ------------------------------- the pure functions, applied to one record
Evaluated(f, r, q, res) == [fn |-> f, risk |-> r, issues |-> q, results |-> res]

ApplyBPRisk ==
    /\ evaluated.fn = "none"
    /\ evaluated' = Evaluated("calculateBPRisk",
                              calculateBPRisk(patient.blood_pressure), FALSE, EmptyResults)
    /\ UNCHANGED <<runVars, patient>>

ApplyTemperatureRisk ==
    /\ evaluated.fn = "none"
    /\ evaluated' = Evaluated("calculateTemperatureRisk",
                              calculateTemperatureRisk(patient.temperature), FALSE, EmptyResults)
    /\ UNCHANGED <<runVars, patient>>

ApplyAgeRisk ==
    /\ evaluated.fn = "none"
    /\ evaluated' = Evaluated("calculateAgeRisk",
                              calculateAgeRisk(patient.age), FALSE, EmptyResults)
    /\ UNCHANGED <<runVars, patient>>

ApplyDataQuality ==
    /\ evaluated.fn = "none"
    /\ evaluated' = Evaluated("hasDataQualityIssues", 0,
                              hasDataQualityIssues(patient), EmptyResults)
    /\ UNCHANGED <<runVars, patient>>

ApplyProcessPatients ==
    /\ evaluated.fn = "none"
    /\ evaluated' = Evaluated("processPatients", 0, FALSE, processPatients(<<patient>>))
    /\ UNCHANGED <<runVars, patient>>

InitEval ==
    /\ InitRun
    /\ patient \in RecordPool
    /\ evaluated = NotEvaluated

NextEval ==
    \/ ApplyBPRisk
    \/ ApplyTemperatureRisk
    \/ ApplyAgeRisk
    \/ ApplyDataQuality
    \/ ApplyProcessPatients

SpecEval == InitEval /\ [][NextEval]_vars

\* ================================================================ claims
\* -------------------------------------------------- history, as sequences
IsGet(e) == e.type = "get"
IsBackoff(e) == e.type = "backoff"
IsPost(e) == e.type = "post"

Gets == SelectSeq(events, IsGet)
Backoffs == SelectSeq(events, IsBackoff)
Posts == SelectSeq(events, IsPost)

GetsOf(p) == {i \in DOMAIN events : events[i].type = "get" /\ events[i].page = p}
RequestedPages == {events[i].page : i \in {j \in DOMAIN events : events[j].type = "get"}}
RespondedPages == {responses[i].page : i \in DOMAIN responses}

RetryableStatuses == {429, 500, 503}
IsRetryableError(e) == e.response /\ e.status \in RetryableStatuses

\* the page data of the responses, concatenated in the order of arrival
RECURSIVE ConcatData(_, _)
ConcatData(resps, i) ==
    IF i > Len(resps) THEN <<>> ELSE resps[i].body.data \o ConcatData(resps, i + 1)

Continues(body) == body.kind = "data" /\ body.hasNext = "true"

\* the fetch phase ended in a throw: the run failed before any POST
FetchFailed == pc = "failed" /\ posted = <<>>

\* C1: a page is requested at most MaxRetries times; every backoff follows an
\* attempt numbered below MaxRetries and is followed by the next attempt of
\* the same page; a retryable failure is thrown only by the attempt numbered
\* MaxRetries, and nothing (no request, no delay) follows that attempt.
C1_RetryBudget ==
    /\ \A p \in RequestedPages : Cardinality(GetsOf(p)) <= MaxRetries
    /\ \A i \in DOMAIN events :
          events[i].type = "backoff" =>
            /\ events[i].attempt < MaxRetries
            /\ i > 1 /\ events[i - 1] = Event("get", events[i].page, events[i].attempt, 0)
            /\ i < Len(events) =>
                 events[i + 1] = Event("get", events[i].page, events[i].attempt + 1, 0)
    /\ (FetchFailed /\ IsRetryableError(error)) =>
          /\ attempt = MaxRetries
          /\ events[Len(events)] = Event("get", page, MaxRetries, 0)
          /\ outcome = "threw"

C1_Witness ==
    /\ FetchFailed
    /\ error = HttpError(503)
    /\ page = 2
    /\ Len(Backoffs) = MaxRetries - 1
    /\ events[Len(events)] = Event("get", 2, MaxRetries, 0)

\* C2: a page request that fails with a non-retryable error (a status outside
\* 429/500/503, or no response) ends the run in failure in that very step,
\* whatever the attempt number: no delay is started, no request is issued,
\* nothing is aggregated or posted, and nothing happens after the failure.
C2_NonRetryableImmediate ==
    [][/\ (pc = "awaitGet" /\ pc' # "awaitGet" /\ responses' = responses
            /\ ~IsRetryableError(error'))
          => (/\ pc' = "failed"
              /\ outcome' = "threw"
              /\ events' = events
              /\ attempt' = attempt
              /\ results' = EmptyResults
              /\ posted' = <<>>)
       /\ pc = "failed" => UNCHANGED vars]_vars

C2_Witness ==
    /\ FetchFailed
    /\ error = HttpError(404)
    /\ page = 2
    /\ attempt = 2
    /\ Len(allPatients) > 0
    /\ events[Len(events)] = Event("get", 2, 2, 0)

\* C3: page n+1 is requested if and only if the response for page n carried a
\* data payload and a truthy hasNext; any other response ends the stream: the
\* fetch is over and the records accumulated so far are what is returned.
C3_Pagination ==
    \A i \in DOMAIN responses :
      LET r == responses[i] IN
        /\ (r.page + 1 \in RequestedPages) => Continues(r.body)
        /\ Continues(r.body) =>
              \/ r.page + 1 \in RequestedPages
              \/ i = Len(responses) /\ pc = "throttle" /\ hasNext /\ page = r.page + 1
        /\ ~Continues(r.body) =>
              /\ i = Len(responses)
              /\ pc \in {"throttle", "fetched", "awaitPost", "done", "failed"}
              /\ pc = "throttle" => ~hasNext
              /\ pc = "failed" => posted # <<>>
              /\ allPatients = ConcatData(responses, 1)
              /\ posted # <<>> => posted[1] = submissionData(processPatients(allPatients))

C3_Witness ==
    /\ pc = "fetched"
    /\ Len(responses) = 2
    /\ responses[2].body = Body("nodata", <<>>, "true")
    /\ Len(allPatients) = 2
    /\ RequestedPages = {1, 2}

\* C4: a failed fetch ends the run in failure without any POST; the POST is
\* issued at most once, only when every requested page has been answered, the
\* last answer ended the stream and all the records of all pages have been
\* aggregated; a run that failed or finished takes no further step.
C4_NoPartialSubmission ==
    /\ [](/\ Len(posted) <= 1
          /\ Len(Posts) = Len(posted)
          /\ (outcome = "threw") = (pc = "failed")
          /\ (pc \in {"awaitGet", "backoff"} => posted = <<>>)
          /\ posted # <<>> =>
               /\ RequestedPages = RespondedPages
               /\ RequestedPages = 1 .. Len(responses)
               /\ ~Continues(responses[Len(responses)].body)
               /\ posted[1] = submissionData(processPatients(ConcatData(responses, 1))))
    /\ [][/\ (pc = "awaitGet" /\ pc' \notin {"awaitGet", "backoff"}
               /\ responses' = responses)
             => (pc' = "failed" /\ outcome' = "threw" /\ posted' = <<>>)
          /\ pc \in {"failed", "done"} => UNCHANGED vars]_vars

C4_Witness ==
    /\ FetchFailed
    /\ outcome = "threw"
    /\ page = 3
    /\ Len(allPatients) = 2 * MaxPageLen
    /\ Posts = <<>>

\* C9: the records accumulated are the concatenation, in page order and then
\* within-page order, of the data arrays of the pages answered, whatever the
\* retries; when pages 1, 2, 3 were requested once, three times and once, and
\* all three answered, exactly 2 backoff delays occurred, both for page 2.
C9_Concatenation ==
    /\ allPatients = ConcatData(responses, 1)
    /\ \A i \in DOMAIN responses : responses[i].page = i
    /\ (/\ pc = "fetched"
        /\ Len(responses) = 3
        /\ Cardinality(GetsOf(1)) = 1
        /\ Cardinality(GetsOf(2)) = 3
        /\ Cardinality(GetsOf(3)) = 1)
       => /\ Len(Backoffs) = 2
          /\ \A i \in DOMAIN Backoffs : Backoffs[i].page = 2
          /\ allPatients = responses[1].body.data \o responses[2].body.data
                             \o responses[3].body.data

C9_Witness ==
    /\ pc = "fetched"
    /\ Len(responses) = 3
    /\ Cardinality(GetsOf(2)) = 3
    /\ Len(Gets) = 5
    /\ Len(Backoffs) = 2
    /\ \A i \in 1 .. 3 : Len(responses[i].body.data) = 2
    /\ allPatients = <<PatientA, PatientB, PatientC, PatientA, PatientB, PatientC>>

\* ---------------------------------------------- the pure functions' claims
\* the readings "S/D" that are enumerated, as (S, D)
Readings == SVals \X DVals

\* the rules of the blood-pressure classification, first match wins
FirstMatchingRule(S, D) ==
    IF S >= 140 \/ D >= 90 THEN 4
    ELSE IF S >= 130 \/ D >= 80 THEN 3
    ELSE IF S >= 120 /\ D < 80 THEN 2
    ELSE IF S < 120 /\ D < 80 THEN 1
    ELSE 0

\* s starts, after white space and at most one sign, with a digit
HasIntPrefix(s) ==
    \E i \in 1 .. Len(s) :
      /\ s[i] \in DigitChars
      /\ \A j \in 1 .. i - 1 : s[j] = " " \/ (j = i - 1 /\ s[j] \in {"+", "-"})

\* s starts, after white space and at most one sign, with digits or "." digit
HasFloatPrefix(s) ==
    \E i \in 1 .. Len(s) :
      /\ s[i] \in DigitChars
      /\ \A j \in 1 .. i - 1 :
            \/ s[j] = " "
            \/ j = i - 1 /\ s[j] \in {"+", "-", "."}
            \/ j = i - 2 /\ s[j] \in {"+", "-"} /\ s[i - 1] = "."

Slashes(s) == {i \in 1 .. Len(s) : s[i] = "/"}

\* x is a string with exactly one "/" and an integer prefix on either side
TwoIntegerParts(x) ==
    /\ x.kind = "string"
    /\ Cardinality(Slashes(x.chars)) = 1
    /\ LET k == CHOOSE i \in Slashes(x.chars) : TRUE
       IN  /\ HasIntPrefix(SubSeq(x.chars, 1, k - 1))
           /\ HasIntPrefix(SubSeq(x.chars, k + 1, Len(x.chars)))

ParsesAsDecimal(x) ==
    \/ x.kind = "number"
    \/ x.kind = "string" /\ HasFloatPrefix(x.chars)

ParsesAsInteger(x) ==
    \/ x.kind = "number"
    \/ x.kind = "string" /\ HasIntPrefix(x.chars)

\* C5 (as claimed): every reading with S < 120 and D in 80..89 yields 0.
C5_GapYieldsZero ==
    \A rd \in Readings :
      (/\ evaluated.fn = "calculateBPRisk"
       /\ patient.blood_pressure = Reading(rd[1], rd[2])
       /\ rd[1] < 120 /\ rd[2] >= 80 /\ rd[2] < 90)
      => evaluated.risk = 0

\* C5 (amended): every reading with S < 120 and D in 80..89 is matched by the
\* second rule (D >= 80) and yields 3; in particular (119,85) yields 3.
C5_GapYieldsThree ==
    /\ \A rd \in Readings :
         (/\ evaluated.fn = "calculateBPRisk"
          /\ patient.blood_pressure = Reading(rd[1], rd[2])
          /\ rd[1] < 120 /\ rd[2] >= 80 /\ rd[2] < 90)
         => evaluated.risk = 3
    /\ (evaluated.fn = "calculateBPRisk" /\ patient.blood_pressure = Reading(119, 85))
         => evaluated.risk = 3

C5_Witness ==
    /\ evaluated.fn = "calculateBPRisk"
    /\ patient.blood_pressure = Str(<<"1", "1", "9", "/", "8", "5">>)
    /\ evaluated.risk = 3

\* C6: a reading "S/D" yields the value of the first matching rule, (135,70)
\* yields 3, and a value that is not a string of two parts with an integer
\* prefix each yields 0.
C6_FirstMatchingRule ==
    evaluated.fn = "calculateBPRisk" =>
      /\ \A rd \in Readings :
           patient.blood_pressure = Reading(rd[1], rd[2])
             => evaluated.risk = FirstMatchingRule(rd[1], rd[2])
      /\ patient.blood_pressure = Reading(135, 70) => evaluated.risk = 3
      /\ ~TwoIntegerParts(patient.blood_pressure) => evaluated.risk = 0

C6_Witness ==
    /\ evaluated.fn = "calculateBPRisk"
    /\ patient.blood_pressure = Str(<<"1", "3", "5", "/", "7", "0">>)
    /\ evaluated.risk = 3

\* C7: a record that fails the data-quality check puts its identifier in the
\* data-quality set and in neither other set; a record that passes it puts
\* nothing in the data-quality set.
C7_FlaggedOnly ==
    evaluated.fn = "processPatients" =>
      IF hasDataQualityIssues(patient)
      THEN /\ evaluated.results.dataQualityIssues = <<patient.patient_id>>
           /\ evaluated.results.highRiskPatients = <<>>
           /\ evaluated.results.feverPatients = <<>>
      ELSE evaluated.results.dataQualityIssues = <<>>

C7_Witness ==
    /\ evaluated.fn = "processPatients"
    /\ patient = Patient("P", Reading(150, 95), Num(1020), Undefined)
    /\ evaluated.results = [EmptyResults EXCEPT !.dataQualityIssues = <<"P">>]

\* C8: a record that passes the check is in the high-risk set iff the three
\* risks sum to 4 or more, and in the febrile set iff its parsed temperature
\* is at least 99.6; "130/85", 99.0, 70 is high-risk only.
C8_Scoring ==
    evaluated.fn = "processPatients" =>
      /\ ~hasDataQualityIssues(patient) =>
           /\ evaluated.results.highRiskPatients =
                (IF calculateBPRisk(patient.blood_pressure)
                      + calculateTemperatureRisk(patient.temperature)
                      + calculateAgeRisk(patient.age) >= 4
                 THEN <<patient.patient_id>> ELSE <<>>)
           /\ evaluated.results.feverPatients =
                (IF ParseFloatChars(ToStringJS(patient.temperature)).v >= 996
                 THEN <<patient.patient_id>> ELSE <<>>)
      /\ patient = Patient("P", Reading(130, 85), Num(990), Num(700)) =>
           /\ evaluated.results.highRiskPatients = <<"P">>
           /\ evaluated.results.feverPatients = <<>>
           /\ evaluated.results.dataQualityIssues = <<>>

C8_Witness ==
    /\ evaluated.fn = "processPatients"
    /\ patient = Patient("P", Reading(130, 85), Num(990), Num(700))
    /\ evaluated.results = [EmptyResults EXCEPT !.highRiskPatients = <<"P">>]

\* C10: the record is usable (no issue) exactly when the blood pressure is a
\* string of two integer-parseable parts, the temperature is present and
\* parses as a decimal number, and the age is present and parses as an integer.
C10_Usable ==
    evaluated.fn = "hasDataQualityIssues" =>
      (evaluated.issues = FALSE) =
         (/\ TwoIntegerParts(patient.blood_pressure)
          /\ ParsesAsDecimal(patient.temperature)
          /\ ParsesAsInteger(patient.age))

C10_Witness ==
    /\ evaluated.fn = "hasDataQualityIssues"
    /\ evaluated.issues = TRUE
    /\ TwoIntegerParts(patient.blood_pressure)
    /\ ParsesAsDecimal(patient.temperature)
    /\ patient.age = Null

\* C11: the delay after the failed attempt k of a page is 1000 x k (1000 after
\* attempt 1, 2000 after attempt 2); between two consecutive attempts of a
\* page there is exactly that one delay; the first attempt of every page is
\* numbered 1.
C11_LinearBackoff ==
    \A i \in DOMAIN events :
      /\ events[i].type = "backoff" =>
           /\ events[i].ms = 1000 * events[i].attempt
           /\ events[i].attempt = 1 => events[i].ms = 1000
           /\ events[i].attempt = 2 => events[i].ms = 2000
      /\ events[i].type = "get" =>
           IF \E j \in 1 .. i - 1 : events[j].type = "get" /\ events[j].page = events[i].page
           THEN /\ i > 2
                /\ events[i - 1] =
                     Event("backoff", events[i].page, events[i].attempt - 1,
                           1000 * (events[i].attempt - 1))
                /\ events[i - 2] = Event("get", events[i].page, events[i].attempt - 1, 0)
           ELSE events[i].attempt = 1

C11_Witness ==
    /\ Len(events) >= 7
    /\ events[1] = Event("get", 1, 1, 0)
    /\ events[2] = Event("backoff", 1, 1, 1000)
    /\ events[3] = Event("get", 1, 2, 0)
    /\ events[4] = Event("backoff", 1, 2, 2000)
    /\ events[5] = Event("get", 1, 3, 0)
    /\ events[7] = Event("get", 2, 1, 0)

\* C12: a GET is issued only when no GET is outstanding, and its page is the
\* one after the pages answered so far, which are 1, 2, 3, ... in this order:
\* no page is requested before its predecessor was answered, none is skipped
\* and no answered page is requested again.
C12_Sequential ==
    /\ [](/\ Len(Gets) - Len(responses) - Len(Backoffs)
               - (IF FetchFailed THEN 1 ELSE 0) = (IF pc = "awaitGet" THEN 1 ELSE 0)
          /\ \A i \in DOMAIN responses : responses[i].page = i
          /\ \A i \in DOMAIN Gets : Gets[i].page \in 1 .. Len(responses) + 1
          /\ \A i \in DOMAIN Gets : i > 1 => Gets[i].page \in {Gets[i - 1].page, Gets[i - 1].page + 1})
    /\ [][Len(events') > Len(events) /\ events'[Len(events')].type = "get"
            => /\ pc # "awaitGet"
               /\ events'[Len(events')].page = Len(responses) + 1
               /\ responses' = responses]_vars

C12_Witness ==
    /\ pc = "awaitGet"
    /\ Len(responses) = 2
    /\ Len(Backoffs) = 1
    /\ Len(Gets) = 4
    /\ Gets[4] = Event("get", 3, 1, 0)

\* C13: a missing, null or unparseable age yields 0; a parseable age yields 2
\* above 65 and 1 otherwise (also below 40, at 0 and below 0), never 0:
\* 66 -> 2, 65 -> 1, 40 -> 1, 10 -> 1, null -> 0.
C13_AgeRisk ==
    evaluated.fn = "calculateAgeRisk" =>
      /\ \A a \in AgeYears :
           patient.age \in {Num(10 * a), Str(IntToChars(a))}
             => evaluated.risk = (IF a > 65 THEN 2 ELSE 1)
      /\ ~ParsesAsInteger(patient.age) => evaluated.risk = 0
      /\ ParsesAsInteger(patient.age) => evaluated.risk \in {1, 2}
      /\ patient.age = Num(660) => evaluated.risk = 2
      /\ patient.age = Num(650) => evaluated.risk = 1
      /\ patient.age = Num(400) => evaluated.risk = 1
      /\ patient.age = Num(100) => evaluated.risk = 1
      /\ patient.age = Null => evaluated.risk = 0

C13_Witness ==
    /\ evaluated.fn = "calculateAgeRisk"
    /\ patient.age = Num(100)
    /\ evaluated.risk = 1

\* C14: a missing, null or unparseable temperature yields 0; otherwise 2 from
\* 101.0, 1 from 99.6 to below 101.0, 0 below 99.6 (in tenths of a degree):
\* 101.0 -> 2, 99.6 -> 1, 99.5 -> 0, "abc" -> 0.
C14_TemperatureRisk ==
    evaluated.fn = "calculateTemperatureRisk" =>
      /\ \A t \in TempTenths :
           patient.temperature \in {Num(t), Str(NumberToString(t))}
             => evaluated.risk = (IF t >= 1010 THEN 2 ELSE IF t >= 996 THEN 1 ELSE 0)
      /\ ~ParsesAsDecimal(patient.temperature) => evaluated.risk = 0
      /\ patient.temperature = Num(1010) => evaluated.risk = 2
      /\ patient.temperature = Num(996) => evaluated.risk = 1
      /\ patient.temperature = Num(995) => evaluated.risk = 0
      /\ patient.temperature = Str(<<"a", "b", "c">>) => evaluated.risk = 0

C14_Witness ==
    /\ evaluated.fn = "calculateTemperatureRisk"
    /\ patient.temperature = Str(<<"9", "9", ".", "6">>)
    /\ evaluated.risk = 1

\* calculateBPRisk of every enumerated reading "S/D"
BPRiskOfReading == [rd \in Readings |-> calculateBPRisk(Reading(rd[1], rd[2]))]

\* C15: calculateBPRisk does not decrease when S or D increases: the risk of
\* the reading "S/D" is at most the risk of every reading "S'/D'" with
\* S <= S' and D <= D'.
C15_Monotone ==
    \A rd \in Readings :
      (evaluated.fn = "calculateBPRisk" /\ patient.blood_pressure = Reading(rd[1], rd[2]))
        => \A up \in Readings :
             (rd[1] <= up[1] /\ rd[2] <= up[2]) => evaluated.risk <= BPRiskOfReading[up]

C15_Witness ==
    /\ evaluated.fn = "calculateBPRisk"
    /\ patient.blood_pressure = Reading(119, 79)
    /\ evaluated.risk = 1
    /\ BPRiskOfReading[<<119, 85>>] = 3
    /\ BPRiskOfReading[<<120, 79>>] = 2

\* the identifiers of the records of q, in the order of q
IdsOf(q) == [i \in DOMAIN q |-> q[i].patient_id]

Flagged(r) == hasDataQualityIssues(r)
Passed(r) == ~hasDataQualityIssues(r)
HighRisk(r) ==
    /\ ~hasDataQualityIssues(r)
    /\ calculateBPRisk(r.blood_pressure) + calculateTemperatureRisk(r.temperature)
         + calculateAgeRisk(r.age) >= 4
Febrile(r) == ~hasDataQualityIssues(r) /\ Ge(parseFloat(r.temperature), 996)

IsThrottle(e) == e.type = "throttle"
Throttles == SelectSeq(events, IsThrottle)
HasData(r) == r.body.kind = "data"

\* C17: one delay of 200 ms is started after every page that was fetched,
\* right after the attempt that succeeded and whatever its number; the first
\* request of every page after page 1 directly follows that one delay of the
\* page before.
C17_Throttle ==
    /\ Len(Throttles) = Len(SelectSeq(responses, HasData))
    /\ \A i \in DOMAIN events :
         /\ events[i].type = "throttle" =>
              /\ events[i].ms = 200
              /\ i > 1
              /\ events[i - 1] = Event("get", events[i].page, events[i].attempt, 0)
         /\ (events[i].type = "get" /\ events[i].attempt = 1 /\ events[i].page > 1) =>
              /\ events[i - 1].type = "throttle"
              /\ events[i - 1].page = events[i].page - 1
              /\ events[i - 1].ms = 200

C17_Witness ==
    /\ Len(events) >= 7
    /\ events[6] = Event("throttle", 1, 3, 200)
    /\ events[7] = Event("get", 2, 1, 0)
    /\ Len(Backoffs) = 2

\* C18: the one payload posted holds the three sets unchanged under the names
\* high_risk_patients, fever_patients and data_quality_issues (three empty
\* lists for empty sets); there is exactly one POST; a failed POST ends the
\* run as thrown and no second POST follows.
C18_Submission ==
    /\ [](posted # <<>> =>
            /\ Len(posted) = 1
            /\ Len(Posts) = 1
            /\ DOMAIN posted[1] = {"high_risk_patients", "fever_patients", "data_quality_issues"}
            /\ posted[1].high_risk_patients = results.highRiskPatients
            /\ posted[1].fever_patients = results.feverPatients
            /\ posted[1].data_quality_issues = results.dataQualityIssues
            /\ results = EmptyResults =>
                 posted[1] = [high_risk_patients |-> <<>>, fever_patients |-> <<>>,
                              data_quality_issues |-> <<>>])
    /\ [][/\ (pc = "awaitPost" /\ pc' \notin {"awaitPost", "done"})
             => (/\ pc' = "failed"
                 /\ outcome' = "threw"
                 /\ error' # NoError
                 /\ posted' = posted
                 /\ events' = events)
          /\ posted # <<>> => (posted' = posted /\ results' = results)]_vars

C18_Witness ==
    /\ pc = "failed"
    /\ outcome = "threw"
    /\ error = HttpError(500)
    /\ Len(posted) = 1
    /\ posted[1] = [high_risk_patients |-> <<"A">>, fever_patients |-> <<"C">>,
                    data_quality_issues |-> <<"B">>]

\* the total that processPatients computes for a record (line 154)
TotalRisk(r) ==
    calculateBPRisk(r.blood_pressure) + calculateTemperatureRisk(r.temperature)
      + calculateAgeRisk(r.age)

\* C19: for a record that passes the data-quality check the blood-pressure
\* risk is in 1..4 (never 0), the age risk in 1..2, the temperature risk in
\* 0..2 and the total in 2..8.
C19_ValidatedRanges ==
    ~hasDataQualityIssues(patient) =>
      /\ evaluated.fn = "calculateBPRisk" => evaluated.risk \in 1 .. 4
      /\ evaluated.fn = "calculateAgeRisk" => evaluated.risk \in 1 .. 2
      /\ evaluated.fn = "calculateTemperatureRisk" => evaluated.risk \in 0 .. 2
      /\ TotalRisk(patient) \in 2 .. 8
      /\ evaluated.fn = "processPatients" =>
           (TotalRisk(patient) >= 4) = (evaluated.results.highRiskPatients # <<>>)

C19_Witness ==
    /\ ~hasDataQualityIssues(patient)
    /\ evaluated.fn = "calculateBPRisk"
    /\ patient.blood_pressure = Reading(119, 85)
    /\ evaluated.risk = 3
    /\ TotalRisk(patient) = 7

\* C20: every page is requested at most MaxRetries times, so at most
\* MaxRetries GETs per page of the upstream are issued, and a fetch that is
\* under way (waiting for a GET, a backoff or a throttle delay) eventually
\* returns or throws.
C20_FetchTerminates ==
    /\ [](/\ \A p \in RequestedPages : Cardinality(GetsOf(p)) <= MaxRetries
          /\ Len(Gets) <= MaxRetries * MaxPages)
    /\ (pc \in {"awaitGet", "backoff", "throttle"}) ~> (pc \in {"fetched", "failed"})

C20_Witness ==
    /\ FetchFailed
    /\ page = 3
    /\ Len(Gets) = 3 * MaxRetries
    /\ Len(Backoffs) = 3 * (MaxRetries - 1)
    /\ IsRetryableError(error)

====
